---------------------------- MODULE Spec2Model ----------------------------
(***************************************************************************)
(* Max-projection pipelines of microscopy_processing:                      *)
(*   max_project_nd2_stream.py         sequential, disk-backed (memmap)    *)
(*   max_project_nd2_fovs.py           sequential, in memory               *)
(*   max_project_nd2_fovs_parallel.py  batched thread pool                 *)
(*                                                                         *)
(* An n-dimensional array is a record [shape, data]: shape is the tuple of *)
(* axis lengths, data maps every index tuple (0-based, as in numpy) to a   *)
(* pixel value.  Positions inside a tuple are 1-based (TLA+ sequences), so *)
(* python axis k is position k + 1.                                        *)
(***************************************************************************)
EXTENDS Integers, Sequences, FiniteSets, TLC

VARIABLES
    script,          \* which program runs
    pc,              \* position of the main thread in it
    err,             \* [kind, fov]: the exception that ended the run and the field
                     \* of view it came from; NoError when none
    axes_order,      \* tuple(f.sizes): the ordered axis labels
    sizes,           \* dict(f.sizes): axis label -> length
    num_fovs,        \* the optional limit; 0 stands for None (both are falsy)
    darr,            \* the decoder's array (f.to_dask() / the pims frames)
    fov_axis,        \* chosen field-of-view axis, "None" when there is none
    total_fovs,      \* total_fovs (stream), n_fovs (fovs), fovs (parallel)
    i,               \* index of the field of view being processed
    arr,             \* the computed plane of field of view i
    geom,            \* the declared (C, Y, X)
    mmap,            \* accumulation buffer: index -> plane (mmap / all_fovs_array)
    writes,          \* index -> number of stores into that slot
    tmp_file,        \* whether the file at memmap_path exists
    out_file,        \* what imwrite has persisted, <<>> before it returns
    cpu_count,       \* os.cpu_count()
    available_memory,\* psutil.virtual_memory().available
    max_workers,     \* [val, isint]: the planned worker count and its python type
    start_index,     \* first index of the current batch
    submitted,       \* index -> number of executor.submit calls for it
    task,            \* index -> "none" | "running" | "done" | "failed"
    collected,       \* indices whose future.result() has returned
    runs,            \* concurrent stream runs: run -> [pc, out_filename, ...]
    files            \* the temporary directory: path -> content

(***************************************************************************)
(* Bounds of the model.                                                    *)
(***************************************************************************)
MaxPixel == 2        \* pixel values are 0..MaxPixel
MaxAxisLen == 2      \* longest axis of an axis-size mapping (axis selection)
MaxNumFovs == 2      \* largest num_fovs argument
DimLen == 2          \* length of the time and depth axes; of every P, M, T, Z axis of a reducer input
MaxFovs == 4         \* most fields of view in a dataset of a pipeline run
MaxCpu == 4          \* largest os.cpu_count()
MaxMemSteps == 6     \* available memory is 0..MaxMemSteps steps of MemStep bytes
MemStep == 10        \* bytes per step of available memory
MaxSide == 2         \* longest channel, row or column axis of a ragged plane
NumRuns == 2         \* concurrent runs sharing the temporary directory
RunFovs == 2         \* fields of view of each of those runs

\* Program constants
data_type_size == 2  \* bytes for uint16
overhead_num == 3    \* overhead = 1.5 = overhead_num / overhead_den
overhead_den == 2

Max(S) == CHOOSE x \in S : \A y \in S : y <= x
Min2(a, b) == IF b < a THEN b ELSE a

(***************************************************************************)
(* Arrays.                                                                 *)
(***************************************************************************)
Top(shape) == IF shape = <<>> THEN 0 ELSE Max({shape[k] : k \in 1..Len(shape)})

Idx(shape) ==
    {s \in [1..Len(shape) -> 0..(Top(shape) - 1)] :
        \A k \in 1..Len(shape) : s[k] < shape[k]}

InsertAt(s, k, v) == SubSeq(s, 1, k - 1) \o <<v>> \o SubSeq(s, k, Len(s))

RemoveAt(s, k) == SubSeq(s, 1, k - 1) \o SubSeq(s, k + 1, Len(s))

\* list.index(a): 0-based position of the first a
IndexOf(seq, a) ==
    (CHOOSE k \in 1..Len(seq) : seq[k] = a /\ \A j \in 1..(k - 1) : seq[j] # a) - 1

Has(seq, a) == \E k \in 1..Len(seq) : seq[k] = a

\* sizes.get(k, d)
Get(d, k, default) == IF k \in DOMAIN d THEN d[k] ELSE default

\* arr[..., i, ...] with an integer at python axis ax: the axis disappears
TakeAxis(ar, ax, ix) ==
    LET shp == RemoveAt(ar.shape, ax + 1)
    IN  [shape |-> shp,
         data  |-> [s \in Idx(shp) |-> ar.data[InsertAt(s, ax + 1, ix)]]]

\* arr.max(axis=ax) / np.max(ar, axis=ax)
MaxAxis(ar, ax) ==
    LET shp == RemoveAt(ar.shape, ax + 1)
    IN  [shape |-> shp,
         data  |-> [s \in Idx(shp) |->
                      Max({ar.data[InsertAt(s, ax + 1, j)] :
                             j \in 0..(ar.shape[ax + 1] - 1)})]]

\* arr[None, ...], arr[:, None, ...], arr[..., None]: a new axis of length 1
\* at python axis ax
NewAxis(ar, ax) ==
    LET shp == InsertAt(ar.shape, ax + 1, 1)
    IN  [shape |-> shp,
         data  |-> [s \in Idx(shp) |-> ar.data[RemoveAt(s, ax + 1)]]]

\* arr.transpose(order): axis k of the result is axis order[k] of arr
Transpose(ar, order) ==
    LET shp == [k \in 1..Len(order) |-> ar.shape[order[k] + 1]]
    IN  [shape |-> shp,
         data  |-> [s \in Idx(shp) |->
                      ar.data[[a \in 1..Len(order) |->
                                  s[CHOOSE k \in 1..Len(order) : order[k] + 1 = a]]]]]

\* arr.astype(np.uint16): the value modulo 2^16
Uint16(ar) == [ar EXCEPT !.data = [s \in DOMAIN ar.data |-> ar.data[s] % 65536]]

(***************************************************************************)
(* Axis Model: the field-of-view axis and the number of fields of view.    *)
(***************************************************************************)
\* Faulty variant of ChooseFovAxis: the tile axis is tried before the position axis
ChooseFovAxis_MFirst(sz) ==
    IF Get(sz, "M", 0) > 1 THEN "M"
    ELSE IF Get(sz, "P", 0) > 1 THEN "P"
    ELSE IF Get(sz, "T", 0) > 1 THEN "T"
    ELSE "None"

\* max_project_nd2_stream.py, "Choose FOV axis: P > M > T (fallback)"
ChooseFovAxis(sz) ==
    IF Get(sz, "P", 0) > 1 THEN "P"
    ELSE IF Get(sz, "M", 0) > 1 THEN "M"
    ELSE IF Get(sz, "T", 0) > 1 THEN "T"
    ELSE "None"

TotalFovs(sz, fa, limit) ==
    LET n == IF fa # "None" THEN Get(sz, fa, 1) ELSE 1
    IN  IF limit # 0 THEN Min2(n, limit) ELSE n

\* max_project_nd2_fovs.py, "Pick the FOV axis"
PickFovAxis(sz) ==
    IF Get(sz, "P", 0) > 1 THEN "P"
    ELSE IF Get(sz, "M", 0) > 1 THEN "M"
    ELSE IF Get(sz, "T", 0) > 1 THEN "T"
    ELSE "None"

NFovs(sz, fa, limit) ==
    LET n == IF fa # "None" THEN Get(sz, fa, 1) ELSE 1
    IN  IF limit # 0 THEN Min2(n, limit) ELSE n

(***************************************************************************)
(* Field Extractor and Reducer.  A sub-volume in flight is a record        *)
(* [sub, cur_axes, exc]: the array, its current axis labels and the        *)
(* exception raised so far ("" when none).                                 *)
(***************************************************************************)
\* indexer[axis_index[fov_axis]] = i; sub = darr[tuple(indexer)]; cur_axes.pop(...)
SliceFov(d, order, fa, ix) ==
    IF fa # "None"
    THEN [sub      |-> TakeAxis(d, IndexOf(order, fa), ix),
          cur_axes |-> RemoveAt(order, IndexOf(order, fa) + 1),
          exc      |-> ""]
    ELSE [sub |-> d, cur_axes |-> order, exc |-> ""]

\* if 'T' in cur_axes: sub = sub.max(axis=t_idx); cur_axes.pop(t_idx)
MaxOverT(r) ==
    IF Has(r.cur_axes, "T")
    THEN LET t_idx == IndexOf(r.cur_axes, "T")
         IN  [r EXCEPT !.sub = MaxAxis(r.sub, t_idx),
                       !.cur_axes = RemoveAt(r.cur_axes, t_idx + 1)]
    ELSE r

\* Faulty variant of MaxOverZ: the maximum is taken along the axis after the depth axis
MaxOverZ_WrongAxis(r) ==
    IF Has(r.cur_axes, "Z")
    THEN LET z_idx == IndexOf(r.cur_axes, "Z")
         IN  [r EXCEPT !.sub = MaxAxis(r.sub, z_idx + 1),
                       !.cur_axes = RemoveAt(r.cur_axes, z_idx + 1)]
    ELSE r

\* if 'Z' in cur_axes: sub = sub.max(axis=z_idx); cur_axes.pop(z_idx)
MaxOverZ(r) ==
    IF Has(r.cur_axes, "Z")
    THEN LET z_idx == IndexOf(r.cur_axes, "Z")
         IN  [r EXCEPT !.sub = MaxAxis(r.sub, z_idx),
                       !.cur_axes = RemoveAt(r.cur_axes, z_idx + 1)]
    ELSE r

\* "Ensure (C,Y,X)": neither a dask array nor an ndarray has a moveaxis
\* method, so a channel axis that is not first raises AttributeError
EnsureC(r) ==
    IF Has(r.cur_axes, "C")
    THEN IF IndexOf(r.cur_axes, "C") # 0
         THEN [r EXCEPT !.exc = "AttributeError"]
         ELSE r
    ELSE [r EXCEPT !.sub = NewAxis(r.sub, 0), !.cur_axes = <<"C">> \o r.cur_axes]

\* if 'Y' not in cur_axes and 'X' in cur_axes: sub = sub[:, None, ...]
InsertY(r) ==
    IF ~Has(r.cur_axes, "Y") /\ Has(r.cur_axes, "X")
    THEN [r EXCEPT !.sub = NewAxis(r.sub, 1),
                   !.cur_axes = InsertAt(r.cur_axes, 2, "Y")]
    ELSE r

\* if 'X' not in cur_axes and 'Y' in cur_axes: sub = sub[..., None]
AppendX(r) ==
    IF ~Has(r.cur_axes, "X") /\ Has(r.cur_axes, "Y")
    THEN [r EXCEPT !.sub = NewAxis(r.sub, Len(r.sub.shape)),
                   !.cur_axes = Append(r.cur_axes, "X")]
    ELSE r

\* order = [index('C'), index('Y'), index('X')]; sub = sub.transpose(order):
\* str.index raises ValueError for a missing label, transpose for an order
\* that does not name every axis
TransposeCYX(r) ==
    IF ~Has(r.cur_axes, "C") \/ ~Has(r.cur_axes, "Y") \/ ~Has(r.cur_axes, "X")
    THEN [r EXCEPT !.exc = "ValueError"]
    ELSE IF Len(r.cur_axes) # 3
    THEN [r EXCEPT !.exc = "ValueError"]
    ELSE [r EXCEPT !.sub = Transpose(r.sub, <<IndexOf(r.cur_axes, "C"),
                                               IndexOf(r.cur_axes, "Y"),
                                               IndexOf(r.cur_axes, "X")>>),
                   !.cur_axes = <<"C", "Y", "X">>]

\* arr = sub.compute(); arr = arr.astype(np.uint16)
Compute(r) == [r EXCEPT !.sub = Uint16(r.sub)]

\* max_project_nd2_stream.py: one field of view, from the slice to the cast;
\* a step that raises ends the pass, the steps after it do not run
StreamReduce(d, order, fa, ix) ==
    LET c == EnsureC(MaxOverZ(MaxOverT(SliceFov(d, order, fa, ix))))
        t == IF c.exc # "" THEN c ELSE TransposeCYX(AppendX(InsertY(c)))
    IN  IF t.exc # "" THEN t ELSE Compute(t)

\* max_project_nd2_fovs.py: the same steps, the plane is appended to out_list
FovsReduce(d, order, fa, ix) ==
    LET c == EnsureC(MaxOverZ(MaxOverT(SliceFov(d, order, fa, ix))))
        t == IF c.exc # "" THEN c ELSE TransposeCYX(AppendX(InsertY(c)))
    IN  IF t.exc # "" THEN t ELSE Compute(t)

\* max_project_nd2_fovs_parallel.py: np.max(fov, axis=1) of a (c,z,y,x) frame
process_fov(fov) == MaxAxis(fov, 1)

\* pims: images[m] with iter_axes = 'm', bundle_axes = 'czyx'
Frame(d, m) == TakeAxis(d, 0, m)

(***************************************************************************)
(* Shape guard and store of the disk-backed pipeline.                      *)
(***************************************************************************)
\* arr[..., :Y, :X]
Crop(ar, yy, xx) ==
    LET shp == <<ar.shape[1], Min2(ar.shape[2], yy), Min2(ar.shape[3], xx)>>
    IN  [shape |-> shp, data |-> [s \in Idx(shp) |-> ar.data[s]]]

\* np.pad(arr, ((0,0),(0,pad_y),(0,pad_x)), mode='edge')
PadEdge(ar, pad_y, pad_x) ==
    LET shp == <<ar.shape[1], ar.shape[2] + pad_y, ar.shape[3] + pad_x>>
    IN  [shape |-> shp,
         data  |-> [s \in Idx(shp) |->
                      ar.data[<<s[1], Min2(s[2], ar.shape[2] - 1),
                                      Min2(s[3], ar.shape[3] - 1)>>]]]

\* if arr.shape != (C, Y, X): crop, then pad when rows or columns are short
Guard(ar, g) ==
    IF ar.shape # g
    THEN LET c == Crop(ar, g[2], g[3])
         IN  IF c.shape[2] < g[2] \/ c.shape[3] < g[3]
             THEN PadEdge(c, g[2] - c.shape[2], g[3] - c.shape[3])
             ELSE c
    ELSE ar

\* numpy can assign a plane to a slot of shape g when every axis of the plane
\* has the slot's length or length 1
Broadcastable(shp, g) ==
    Len(shp) = Len(g) /\ \A k \in 1..Len(g) : shp[k] = g[k] \/ shp[k] = 1

\* mmap[i] = arr: the slot after the assignment
Broadcast(ar, g) ==
    [shape |-> g,
     data  |-> [s \in Idx(g) |->
                  ar.data[[k \in 1..Len(g) |-> IF ar.shape[k] = 1 THEN 0 ELSE s[k]]]]]

\* np.zeros / a fresh memmap: a plane of zeros
Zeros(g) == [shape |-> g, data |-> [s \in Idx(g) |-> 0]]

(***************************************************************************)
(* State shared by the specifications.                                     *)
(***************************************************************************)
NoError == [kind |-> "", fov |-> -1]

vars == <<script, pc, err, axes_order, sizes, num_fovs, darr, fov_axis, total_fovs,
          i, arr, geom, mmap, writes, tmp_file, out_file, cpu_count,
          available_memory, max_workers, start_index, submitted, task, collected,
          runs, files>>

inputs == <<script, axes_order, sizes, num_fovs, darr>>
buffer == <<geom, mmap, writes, tmp_file, out_file>>
pool == <<cpu_count, available_memory, max_workers, start_index, submitted, task,
          collected>>
tmpdir == <<runs, files>>

NoBuffer ==
    geom = <<>> /\ mmap = <<>> /\ writes = <<>> /\ tmp_file = FALSE /\ out_file = <<>>

NoPool ==
    /\ cpu_count = 0 /\ available_memory = 0
    /\ max_workers = [val |-> 0, isint |-> TRUE]
    /\ start_index = 0 /\ submitted = <<>> /\ task = <<>> /\ collected = {}

NoTmpdir == runs = <<>> /\ files = <<>>

Perms(S) == {f \in [1..Cardinality(S) -> S] : \A j, k \in 1..Cardinality(S) : f[j] = f[k] => j = k}

Pixels == 0..MaxPixel

\* The arrays of a shape that hold one value everywhere but at one index
HotArrays(shp) ==
    {[shape |-> shp, data |-> [s \in Idx(shp) |-> IF s = h THEN v ELSE b]] :
        h \in Idx(shp), v \in Pixels, b \in Pixels}

(***************************************************************************)
(* SpecAxis: the axis selection of the two nd2 scripts over every mapping  *)
(* of the candidate axes P, M, T (absent, or of length 1..MaxAxisLen) and  *)
(* the channel axis, in every order.                                       *)
(***************************************************************************)
AxisMappings ==
    UNION {[S \cup {"C"} -> 1..MaxAxisLen] : S \in SUBSET {"P", "M", "T"}}

InitAxis ==
    /\ script \in {"stream", "fovs"}
    /\ pc = "open"
    /\ err = NoError
    /\ sizes \in AxisMappings
    /\ axes_order \in Perms(DOMAIN sizes)
    /\ num_fovs \in 0..MaxNumFovs
    /\ darr = <<>>
    /\ fov_axis = "unset"
    /\ total_fovs = 0
    /\ i = 0
    /\ arr = <<>>
    /\ NoBuffer /\ NoPool /\ NoTmpdir

StreamAxis ==
    /\ script = "stream" /\ pc = "open"
    /\ fov_axis' = ChooseFovAxis(sizes)
    /\ total_fovs' = TotalFovs(sizes, fov_axis', num_fovs)
    /\ pc' = "chosen"
    /\ UNCHANGED <<inputs, err, i, arr, buffer, pool, tmpdir>>

FovsAxis ==
    /\ script = "fovs" /\ pc = "open"
    /\ fov_axis' = PickFovAxis(sizes)
    /\ total_fovs' = NFovs(sizes, fov_axis', num_fovs)
    /\ pc' = "chosen"
    /\ UNCHANGED <<inputs, err, i, arr, buffer, pool, tmpdir>>

NextAxis == StreamAxis \/ FovsAxis

SpecAxis == InitAxis /\ [][NextAxis]_vars

Multi(a) == a \in DOMAIN sizes /\ sizes[a] > 1

\* C1: once the axis is chosen, it is P whenever P has more than one position
\* (wherever P stands in axes_order), else M when M has more than one tile,
\* else T when T has more than one step; with no such axis none is chosen and
\* the source counts as one field of view.
C1_AxisSelection ==
    pc = "chosen" =>
        /\ Multi("P") => fov_axis = "P"
        /\ ~Multi("P") /\ Multi("M") => fov_axis = "M"
        /\ ~Multi("P") /\ ~Multi("M") /\ Multi("T") => fov_axis = "T"
        /\ ~Multi("P") /\ ~Multi("M") /\ ~Multi("T") =>
               fov_axis = "None" /\ total_fovs = 1

C1_Witness ==
    /\ pc = "chosen" /\ script = "fovs"
    /\ Multi("P") /\ Multi("M") /\ Multi("T")
    /\ axes_order[Len(axes_order)] = "P"
    /\ fov_axis = "P"

(***************************************************************************)
(* SpecReduce: one field of view through the reducer of each script, over  *)
(* the axis layouts below and every array of HotArrays.                    *)
(***************************************************************************)
\* Layouts of the nd2 scripts: with a position, tile or time axis as the
\* field-of-view axis, with and without a time axis to reduce, and with the
\* channel, row or column axis missing or out of place
ReduceLayouts ==
    {<<"P", "C", "Z", "Y", "X">>,
     <<"T", "C", "Z", "Y", "X">>,
     <<"T", "P", "Z", "C", "Y", "X">>,
     <<"M", "T", "Z", "Y", "X">>,
     <<"T", "Z", "C", "X">>,
     <<"Z", "C", "Y">>,
     <<"P", "Z", "Y", "X", "C">>}

\* The layout pims delivers with iter_axes = 'm' and bundle_axes = 'czyx'
PimsLayout == <<"M", "C", "Z", "Y", "X">>

AxisLen(a) == IF a \in {"P", "M", "T", "Z"} THEN DimLen ELSE IF a = "Y" THEN 1 ELSE 2

SizesOf(order) == [a \in {order[k] : k \in 1..Len(order)} |-> AxisLen(a)]

ShapeOf(order) == [k \in 1..Len(order) |-> AxisLen(order[k])]

InitReduce ==
    /\ script \in {"stream", "fovs", "parallel"}
    /\ pc = "extract"
    /\ err = NoError
    /\ axes_order \in (IF script = "parallel" THEN {PimsLayout} ELSE ReduceLayouts)
    /\ sizes = SizesOf(axes_order)
    /\ num_fovs = 0
    /\ darr \in HotArrays(ShapeOf(axes_order))
    /\ fov_axis = (IF script = "parallel" THEN "M" ELSE ChooseFovAxis(sizes))
    /\ total_fovs = TotalFovs(sizes, fov_axis, num_fovs)
    /\ i \in 0..(total_fovs - 1)
    /\ arr = <<>>
    /\ NoBuffer /\ NoPool /\ NoTmpdir

Reduced(r) ==
    /\ IF r.exc = ""
       THEN arr' = r.sub /\ pc' = "reduced" /\ err' = err
       ELSE arr' = arr /\ pc' = "aborted" /\ err' = [kind |-> r.exc, fov |-> i]
    /\ UNCHANGED <<inputs, fov_axis, total_fovs, i, buffer, pool, tmpdir>>

StreamProject ==
    /\ script = "stream" /\ pc = "extract"
    /\ Reduced(StreamReduce(darr, axes_order, fov_axis, i))

FovsProject ==
    /\ script = "fovs" /\ pc = "extract"
    /\ Reduced(FovsReduce(darr, axes_order, fov_axis, i))

ParProject ==
    /\ script = "parallel" /\ pc = "extract"
    /\ Reduced([sub |-> process_fov(Frame(darr, i)), exc |-> ""])

NextReduce == StreamProject \/ FovsProject \/ ParProject

SpecReduce == InitReduce /\ [][NextReduce]_vars

\* The positions of axis a that belong to field of view ix
Along(a, ix) ==
    IF a = fov_axis THEN {ix}
    ELSE IF a \in DOMAIN sizes THEN 0..(sizes[a] - 1) ELSE {0}

\* The source value of field of view ix at time t, depth z, pixel (c, y, x)
Source(ix, t, z, c, y, x) ==
    darr.data[[k \in 1..Len(axes_order) |->
                 LET a == axes_order[k]
                 IN  IF a = fov_axis THEN ix
                     ELSE IF a = "T" THEN t
                     ELSE IF a = "Z" THEN z
                     ELSE IF a = "C" THEN c
                     ELSE IF a = "Y" THEN y
                     ELSE IF a = "X" THEN x
                     ELSE 0]]

PixelMax(ix, c, y, x) ==
    Max({Source(ix, t, z, c, y, x) : t \in Along("T", ix), z \in Along("Z", ix)})

DeclaredShape == <<Get(sizes, "C", 1), Get(sizes, "Y", 1), Get(sizes, "X", 1)>>

\* C8: the plane produced for a field of view has the declared (C, Y, X)
\* shape, each of its pixels is the maximum of the source over every time
\* and depth position of that field of view, and reducing depth before time
\* gives the same array as reducing time before depth.
C8_Reduction ==
    /\ pc = "reduced" =>
          /\ arr.shape = DeclaredShape
          /\ \A s \in Idx(DeclaredShape) : arr.data[s] = PixelMax(i, s[1], s[2], s[3])
    /\ script # "parallel" /\ pc \in {"extract", "reduced", "aborted"} =>
          LET r == SliceFov(darr, axes_order, fov_axis, i)
          IN  MaxOverT(MaxOverZ(r)) = MaxOverZ(MaxOverT(r))

C8_Witness ==
    /\ pc = "reduced" /\ script = "stream"
    /\ Has(axes_order, "T") /\ fov_axis = "P"
    /\ \E s \in Idx(DeclaredShape) :
          /\ arr.data[s] > 0
          /\ Source(i, 0, 0, s[1], s[2], s[3]) = 0
          /\ Source(i, 1, 0, s[1], s[2], s[3]) = 0
          /\ Source(i, 0, 1, s[1], s[2], s[3]) = 0

(***************************************************************************)
(* The disk-backed pipeline: stream_max_project_nd2.                       *)
(***************************************************************************)
\* The probe of "Basic geometry": index 0 along every P, M, T, Z, C axis
\* longer than 1, keep the others; the shape of what is left
ProbeShape(d, order, sz) ==
    LET kept == SelectSeq([k \in 1..Len(order) |-> k],
                          LAMBDA k : ~(order[k] \in {"P", "M", "T", "Z", "C"}
                                       /\ Get(sz, order[k], 1) > 1))
    IN  [j \in 1..Len(kept) |-> d.shape[kept[j]]]

\* C, Y, X of "Basic geometry"; arr0.shape[-2] of a probe with fewer than two
\* axes raises IndexError
Geometry(d, order, sz) ==
    LET shape0 == ProbeShape(d, order, sz)
        n0 == Len(shape0)
    IN  IF "Y" \in DOMAIN sz /\ "X" \in DOMAIN sz
        THEN [g |-> <<Get(sz, "C", 1), sz["Y"], sz["X"]>>, exc |-> ""]
        ELSE IF ("Y" \notin DOMAIN sz /\ n0 < 2) \/ n0 < 1
        THEN [g |-> <<>>, exc |-> "IndexError"]
        ELSE [g |-> <<Get(sz, "C", 1),
                      IF "Y" \in DOMAIN sz THEN sz["Y"] ELSE shape0[n0 - 1],
                      IF "X" \in DOMAIN sz THEN sz["X"] ELSE shape0[n0]>>,
              exc |-> ""]

\* The fields of view of the source, before num_fovs limits them
SourceFovs == 0..(TotalFovs(sizes, ChooseFovAxis(sizes), 0) - 1)

Abort(kind, ix) == pc' = "aborted" /\ err' = [kind |-> kind, fov |-> ix]

\* Faulty variant of FailFov: the buffer is rolled back to zeros when a field of view fails
FailFov_Rollback(kind, ix) ==
    /\ Abort(kind, ix)
    /\ mmap' = [k \in DOMAIN mmap |-> Zeros(geom)]
    /\ writes' = [k \in DOMAIN writes |-> 0]

\* An exception raised while field of view ix is read or processed leaves the
\* function: nothing touches the accumulation buffer on the way out
FailFov(kind, ix) == Abort(kind, ix) /\ UNCHANGED <<mmap, writes>>

\* with nd2.ND2File(...) up to np.memmap(..., mode='w+', ...)
StreamOpen ==
    /\ script = "stream" /\ pc = "start"
    /\ fov_axis' = ChooseFovAxis(sizes)
    /\ total_fovs' = TotalFovs(sizes, fov_axis', num_fovs)
    /\ LET geo == Geometry(darr, axes_order, sizes)
       IN  IF geo.exc # ""
           THEN /\ Abort(geo.exc, -1)
                /\ UNCHANGED <<geom, mmap, writes, tmp_file>>
           ELSE /\ geom' = geo.g
                /\ mmap' = [k \in 0..(total_fovs' - 1) |-> Zeros(geo.g)]
                /\ writes' = [k \in SourceFovs |-> 0]
                /\ tmp_file' = TRUE
                /\ pc' = "loop"
                /\ err' = err
    /\ i' = 0
    /\ UNCHANGED <<inputs, arr, out_file, pool, tmpdir>>

\* for i in range(total_fovs): the loop goes on while this holds
InRange(ix, n) == ix < n

\* One pass of the loop body: slice and reduce (lazily: an unusable layout
\* raises here), compute (the decoder reads here and may fail), guard the
\* shape, store into mmap[i] (numpy raises ValueError for a plane it cannot
\* broadcast into the slot)
StreamFov ==
    /\ script = "stream" /\ pc = "loop" /\ InRange(i, total_fovs)
    /\ \E read_ok \in BOOLEAN :
         LET r == StreamReduce(darr, axes_order, fov_axis, i)
             a == Guard(r.sub, geom)
         IN  IF r.exc # ""
             THEN FailFov(r.exc, i) /\ UNCHANGED <<i, arr>>
             ELSE IF ~read_ok
             THEN FailFov("read", i) /\ UNCHANGED <<i, arr>>
             ELSE IF ~Broadcastable(a.shape, geom)
             THEN FailFov("ValueError", i) /\ arr' = a /\ i' = i
             ELSE /\ arr' = a
                  /\ mmap' = [mmap EXCEPT ![i] = Broadcast(a, geom)]
                  /\ writes' = [writes EXCEPT ![i] = @ + 1]
                  /\ i' = i + 1
                  /\ UNCHANGED <<pc, err>>
    /\ UNCHANGED <<inputs, fov_axis, total_fovs, geom, tmp_file, out_file, pool, tmpdir>>

\* mmap.flush(); imwrite(out_filename, mmap, ...): the writer returns or raises
StreamWrite ==
    /\ script = "stream" /\ pc = "loop" /\ ~InRange(i, total_fovs)
    /\ \E write_ok \in BOOLEAN :
         IF write_ok
         THEN out_file' = mmap /\ pc' = "remove" /\ err' = err
         ELSE out_file' = out_file /\ Abort("imwrite", -1)
    /\ UNCHANGED <<inputs, fov_axis, total_fovs, i, arr, geom, mmap, writes, tmp_file,
                   pool, tmpdir>>

\* Faulty variant of RemoveOutcome: the OSError of a failed removal is not caught
RemoveOutcome_Raise(removed) ==
    IF removed
    THEN tmp_file' = FALSE /\ pc' = "done" /\ err' = err
    ELSE tmp_file' = tmp_file /\ Abort("OSError", -1)

\* try: os.remove(memmap_path) except OSError: pass
RemoveOutcome(removed) ==
    /\ tmp_file' = (IF removed THEN FALSE ELSE tmp_file)
    /\ pc' = "done"
    /\ err' = err

StreamRemove ==
    /\ script = "stream" /\ pc = "remove"
    /\ \E removed \in BOOLEAN : RemoveOutcome(removed)
    /\ UNCHANGED <<inputs, fov_axis, total_fovs, i, arr, geom, mmap, writes, out_file,
                   pool, tmpdir>>

NextStream == StreamOpen \/ StreamFov \/ StreamWrite \/ StreamRemove

\* Datasets of a pipeline run: n fields of view along the first axis of the
\* layout (when it has a field-of-view axis), DimLen depth planes, one
\* channel, one row, two columns; zero but for one pixel
RunLen(a, n) ==
    IF a \in {"P", "M", "T"} THEN n ELSE IF a = "Z" THEN DimLen ELSE IF a = "X" THEN 2 ELSE 1

RunSizes(order, n) == [a \in {order[k] : k \in 1..Len(order)} |-> RunLen(a, n)]

RunShape(order, n) == [k \in 1..Len(order) |-> RunLen(order[k], n)]

RunArrays(shp) ==
    {[shape |-> shp, data |-> [s \in Idx(shp) |-> IF s = h THEN v ELSE 0]] :
        h \in Idx(shp), v \in Pixels}

StreamLayouts ==
    {<<"P", "C", "Z", "Y", "X">>, <<"T", "C", "Z", "Y", "X">>, <<"C", "Z", "Y", "X">>,
     <<"Z", "C", "X">>}

InitStream ==
    /\ script = "stream"
    /\ pc = "start"
    /\ err = NoError
    /\ axes_order \in StreamLayouts
    /\ \E n \in 1..MaxFovs :
          /\ sizes = RunSizes(axes_order, n)
          /\ darr \in RunArrays(RunShape(axes_order, n))
    /\ num_fovs \in 0..MaxNumFovs
    /\ fov_axis = "unset"
    /\ total_fovs = 0
    /\ i = 0
    /\ arr = <<>>
    /\ NoBuffer /\ NoPool /\ NoTmpdir

(***************************************************************************)
(* The batched thread-pool pipeline: main of                               *)
(* max_project_nd2_fovs_parallel.py.  A python number is [val, isint]:     *)
(* its value and whether it is an int (else a float).                      *)
(***************************************************************************)
PyInt(n) == [val |-> n, isint |-> TRUE]

\* min(a, b) and max(a, b) of python: the first argument unless the second
\* is strictly smaller (larger); the result keeps the type of the argument
PyMin(a, b) == IF b.val < a.val THEN b ELSE a

PyMax(a, b) == IF b.val > a.val THEN b ELSE a

\* available_memory // memory_per_thread, where memory_per_thread =
\* height * width * channels * zs * data_type_size * overhead is a float
\* (overhead = 1.5): floor division by a float gives a float
MemoryQuotient(avail, height, width, channels, zs) ==
    [val   |-> (avail * overhead_den)
                  \div (height * width * channels * zs * data_type_size * overhead_num),
     isint |-> FALSE]

\* optimal_workers = min(available_memory // memory_per_thread, os.cpu_count())
\* max_workers = max(1, optimal_workers)
PlanWorkers(avail, height, width, channels, zs, cpus) ==
    PyMax(PyInt(1), PyMin(MemoryQuotient(avail, height, width, channels, zs), PyInt(cpus)))

\* end_index = min(start_index + batch_size, fovs)
EndIndex(start, batch_size, n) == Min2(start + batch_size, n)

\* Faulty variant of NextStart: the loop steps one index too far
NextStart_Skip(start, batch_size) == start + batch_size + 1

\* range(0, fovs, batch_size): the start of the next batch
NextStart(start, batch_size) == start + batch_size

Batch == start_index..(EndIndex(start_index, max_workers.val, total_fovs) - 1)

\* pims.open up to range(0, fovs, batch_size), which raises TypeError for a
\* float step
ParPlan ==
    /\ script = "parallel" /\ pc = "start"
    /\ fov_axis' = "M"
    /\ total_fovs' = (IF num_fovs # 0 THEN Min2(num_fovs, sizes["M"]) ELSE sizes["M"])
    /\ geom' = <<sizes["C"], sizes["Y"], sizes["X"]>>
    /\ mmap' = [k \in 0..(total_fovs' - 1) |-> Zeros(geom')]
    /\ writes' = [k \in 0..(sizes["M"] - 1) |-> 0]
    /\ submitted' = [k \in 0..(sizes["M"] - 1) |-> 0]
    /\ task' = [k \in 0..(sizes["M"] - 1) |-> "none"]
    /\ max_workers' = PlanWorkers(available_memory, sizes["Y"], sizes["X"], sizes["C"],
                                  sizes["Z"], cpu_count)
    /\ start_index' = 0
    /\ IF max_workers'.isint
       THEN pc' = "batch" /\ err' = err
       ELSE Abort("TypeError", -1)
    /\ UNCHANGED <<inputs, i, arr, tmp_file, out_file, cpu_count, available_memory,
                   collected, tmpdir>>

\* batch = [images[m] for m in range(start_index, end_index)], then one
\* executor.submit per frame; a frame that cannot be read ends the run before
\* anything of the batch is submitted
ParBatch ==
    /\ script = "parallel" /\ pc = "batch" /\ start_index < total_fovs
    /\ \/ /\ submitted' = [k \in DOMAIN submitted |->
                             IF k \in Batch THEN submitted[k] + 1 ELSE submitted[k]]
          /\ task' = [k \in DOMAIN task |-> IF k \in Batch THEN "running" ELSE task[k]]
          /\ pc' = "wait"
          /\ err' = err
          /\ UNCHANGED <<mmap, writes>>
       \/ /\ \E m \in Batch : FailFov("read", m)
          /\ UNCHANGED <<submitted, task>>
    /\ UNCHANGED <<inputs, fov_axis, total_fovs, i, arr, geom, tmp_file, out_file,
                   cpu_count, available_memory, max_workers, start_index, collected,
                   tmpdir>>

\* Faulty variant of Slot: a task stores into the next free slot of its batch, in
\* the order the tasks finish
Slot_Arrival(m) ==
    start_index + Cardinality({k \in Batch : task[k] \in {"done", "failed"}})

\* all_fovs_array[m] = ...: the slot a task stores into
Slot(m) == m

\* A pool thread runs process_fov(batch[..], m, all_fovs_array) to its end:
\* it stores the projection, or raises and stores nothing
ParTask(m) ==
    /\ script = "parallel" /\ pc \in {"wait", "shutdown"}
    /\ m \in DOMAIN task /\ task[m] = "running"
    /\ \E ok \in BOOLEAN :
         IF ok /\ Slot(m) \in DOMAIN mmap
         THEN /\ mmap' = [mmap EXCEPT ![Slot(m)] = process_fov(Frame(darr, m))]
              /\ writes' = [writes EXCEPT ![Slot(m)] = @ + 1]
              /\ task' = [task EXCEPT ![m] = "done"]
         ELSE /\ task' = [task EXCEPT ![m] = "failed"]
              /\ UNCHANGED <<mmap, writes>>
    /\ UNCHANGED <<inputs, pc, err, fov_axis, total_fovs, i, arr, geom, tmp_file,
                   out_file, cpu_count, available_memory, max_workers, start_index,
                   submitted, collected, tmpdir>>

\* for future in as_completed(futures): future.result() -- a finished future
\* is taken; its exception, if any, is raised in the main thread
ParCollect(m) ==
    /\ script = "parallel" /\ pc = "wait"
    /\ m \in Batch /\ m \notin collected /\ task[m] \in {"done", "failed"}
    /\ collected' = collected \cup {m}
    /\ IF task[m] = "failed"
       THEN pc' = "shutdown" /\ err' = [kind |-> "process", fov |-> m]
       ELSE UNCHANGED <<pc, err>>
    /\ UNCHANGED <<inputs, fov_axis, total_fovs, i, arr, buffer, cpu_count,
                   available_memory, max_workers, start_index, submitted, task, tmpdir>>

\* The with-block may be left once no task of the pool is running
\* (ThreadPoolExecutor.__exit__ is shutdown(wait=True))
PoolIdle == \A k \in DOMAIN task : task[k] # "running"

\* Faulty variant of BatchCollected: the loop over as_completed stops at the first future
BatchCollected_Any == \E m \in Batch : m \in collected

\* Every future of the batch has been taken from as_completed
BatchCollected == \A m \in Batch : m \in collected

\* End of the with-block after a batch without failure: on to the next batch
ParBarrier ==
    /\ script = "parallel" /\ pc = "wait"
    /\ BatchCollected /\ PoolIdle
    /\ start_index' = NextStart(start_index, max_workers.val)
    /\ pc' = "batch"
    /\ UNCHANGED <<inputs, err, fov_axis, total_fovs, i, arr, buffer, cpu_count,
                   available_memory, max_workers, submitted, task, collected, tmpdir>>

\* End of the with-block after future.result() raised: the exception leaves
\* main once the running tasks have ended
ParShutdown ==
    /\ script = "parallel" /\ pc = "shutdown"
    /\ PoolIdle
    /\ pc' = "aborted"
    /\ UNCHANGED <<inputs, err, fov_axis, total_fovs, i, arr, buffer, pool, tmpdir>>

\* imwrite(out_filename, all_fovs_array, ...) after the loop
ParWrite ==
    /\ script = "parallel" /\ pc = "batch" /\ ~(start_index < total_fovs)
    /\ \E write_ok \in BOOLEAN :
         IF write_ok
         THEN out_file' = mmap /\ pc' = "done" /\ err' = err
         ELSE out_file' = out_file /\ Abort("imwrite", -1)
    /\ UNCHANGED <<inputs, fov_axis, total_fovs, i, arr, geom, mmap, writes, tmp_file,
                   pool, tmpdir>>

NextPar ==
    \/ ParPlan
    \/ ParBatch
    \/ \E m \in 0..(MaxFovs - 1) : ParTask(m)
    \/ \E m \in 0..(MaxFovs - 1) : ParCollect(m)
    \/ ParBarrier
    \/ ParShutdown
    \/ ParWrite

InitPar ==
    /\ script = "parallel"
    /\ pc = "start"
    /\ err = NoError
    /\ axes_order = PimsLayout
    /\ \E n \in 1..MaxFovs :
          /\ sizes = RunSizes(axes_order, n)
          /\ darr \in RunArrays(RunShape(axes_order, n))
    /\ num_fovs \in 0..MaxNumFovs
    /\ fov_axis = "unset"
    /\ total_fovs = 0
    /\ i = 0
    /\ arr = <<>>
    /\ NoBuffer /\ NoTmpdir
    /\ cpu_count \in 1..MaxCpu
    /\ available_memory \in {k * MemStep : k \in 0..MaxMemSteps}
    /\ max_workers = PyInt(0)
    /\ start_index = 0 /\ submitted = <<>> /\ task = <<>> /\ collected = {}

(***************************************************************************)
(* Spec: a run of the disk-backed pipeline or of the batched pipeline.     *)
(***************************************************************************)
Init == InitStream \/ InitPar

Next == NextStream \/ NextPar

Spec == Init /\ [][Next]_vars

\* The plane a run has to hold for field of view ix: the per-pixel maximum
\* of the source over every depth and time position of ix
ExpectedPlane(ix) ==
    [shape |-> geom,
     data  |-> [s \in Idx(geom) |-> PixelMax(ix, s[1], s[2], s[3])]]

\* The writer has been called: it returned, or it raised
WriterInvoked == out_file # <<>> \/ err.kind = "imwrite"

\* The loop of the run has ended without an exception
LoopDone ==
    \/ script = "stream" /\ pc = "loop" /\ ~InRange(i, total_fovs)
    \/ script = "parallel" /\ pc = "batch" /\ ~(start_index < total_fovs)

\* C2: when the writer is called, every index below total_fovs (the source's
\* count, or num_fovs when that is smaller) has been stored exactly once and
\* no other field of view has been stored; the buffer has exactly those slots.
C2_IndexCompleteness ==
    LoopDone \/ WriterInvoked =>
        /\ DOMAIN mmap = 0..(total_fovs - 1)
        /\ \A k \in DOMAIN writes : writes[k] = (IF k < total_fovs THEN 1 ELSE 0)

C2_Witness ==
    /\ script = "parallel" /\ out_file # <<>>
    /\ num_fovs = 2 /\ sizes["M"] = 3 /\ total_fovs = 2
    /\ max_workers.val = 1

\* C3: in the batched pipeline the slot of every finished task holds the
\* projection of that task's field of view, whatever tasks of the batch
\* finished before it, and after the last batch slot m holds the projection
\* of field of view m for every m: the buffer depends on the input alone, not
\* on the worker count or the completion order.
C3_OrderIndependence ==
    script = "parallel" /\ pc # "start" =>
        /\ \A m \in DOMAIN mmap : task[m] = "done" => mmap[m] = ExpectedPlane(m)
        /\ LoopDone \/ WriterInvoked =>
              \A m \in 0..(total_fovs - 1) : mmap[m] = ExpectedPlane(m)

C3_Witness ==
    /\ script = "parallel" /\ pc = "wait"
    /\ max_workers.val = 4 /\ total_fovs = 4
    /\ task[0] = "running" /\ task[3] = "done" /\ task[1] = "done"
    /\ mmap[3] # Zeros(geom) /\ mmap[0] = Zeros(geom)

\* C4: the planned worker count is an int between 1 and the CPU count, and
\* the batch loop accepts it as its step.
C4_WorkerCount ==
    script = "parallel" /\ pc # "start" =>
        /\ max_workers.isint
        /\ 1 <= max_workers.val /\ max_workers.val <= cpu_count
        /\ err.kind # "TypeError"

\* C5: batches start at multiples of the worker count; while a batch is
\* read, dispatched or waited for, every index of an earlier batch has been
\* submitted once and its task has finished, no index of a later batch has
\* been submitted, no index is submitted twice, and at most worker_count
\* tasks are running.
C5_BatchBarrier ==
    script = "parallel" /\ pc # "start" /\ max_workers.isint =>
        /\ start_index % max_workers.val = 0
        /\ \A m \in DOMAIN task :
              /\ submitted[m] <= 1
              /\ m < start_index /\ m < total_fovs =>
                    submitted[m] = 1 /\ task[m] = "done"
              /\ m >= EndIndex(start_index, max_workers.val, total_fovs) =>
                    submitted[m] = 0 /\ task[m] = "none"
        /\ Cardinality({m \in DOMAIN task : task[m] = "running"}) <= max_workers.val
        /\ LoopDone => \A m \in 0..(total_fovs - 1) : submitted[m] = 1

C5_Witness ==
    /\ script = "parallel" /\ pc = "wait"
    /\ max_workers.val = 2 /\ start_index = 2 /\ total_fovs >= 3
    /\ task[0] = "done" /\ task[1] = "done" /\ task[2] = "running"

\* The last index the run may have touched when it aborted on field of view
\* err.fov: the end of the current pass (stream) or of the current batch
Attempted ==
    IF script = "stream" THEN i + 1
    ELSE EndIndex(start_index, max_workers.val, total_fovs)

\* The indices finished before the pass or batch that failed
Earlier == IF script = "stream" THEN 0..(i - 1) ELSE 0..(start_index - 1)

\* C6: a run that aborted because a field of view could not be read or
\* processed has not called the writer, the failing field of view belongs to
\* the pass or batch that was under way, nothing beyond that pass or batch was
\* started, every field of view finished earlier is still in the buffer with
\* its projection, and so is every sibling of the batch that finished.
C6_FailurePolicy ==
    pc = "aborted" /\ err.fov >= 0 =>
        /\ out_file = <<>>
        /\ err.fov < Attempted /\ err.fov \notin Earlier
        /\ writes[err.fov] = 0
        /\ \A k \in DOMAIN writes : k >= Attempted => writes[k] = 0
        /\ \A k \in Earlier : writes[k] = 1 /\ mmap[k] = ExpectedPlane(k)
        /\ \A k \in DOMAIN mmap : writes[k] = 1 => mmap[k] = ExpectedPlane(k)
        /\ script = "parallel" =>
              \A k \in DOMAIN task :
                 /\ k >= Attempted => task[k] = "none"
                 /\ task[k] = "done" => writes[k] = 1

C6_Witness ==
    /\ script = "stream" /\ pc = "aborted"
    /\ total_fovs = 3 /\ err = [kind |-> "read", fov |-> 1]
    /\ writes[0] = 1 /\ mmap[0] # Zeros(geom) /\ writes[2] = 0

\* C7: in the disk-backed pipeline the temporary file is gone only after the
\* writer has returned; a run the writer aborted leaves the file in place;
\* and once the writer has returned the run ends without an error whether or
\* not the file could be removed.
C7_TempFileLifecycle ==
    script = "stream" /\ pc # "start" =>
        /\ ~tmp_file /\ mmap # <<>> => out_file # <<>> /\ pc = "done"
        /\ pc = "aborted" /\ err.kind = "imwrite" => tmp_file /\ out_file = <<>>
        /\ out_file # <<>> => pc \in {"remove", "done"} /\ err = NoError

C7_Witness ==
    script = "stream" /\ pc = "done" /\ tmp_file /\ out_file # <<>> /\ err = NoError

(***************************************************************************)
(* SpecGuard: the disk-backed pipeline over sources whose array does not   *)
(* have the channel, row and column lengths that f.sizes declares (a       *)
(* ragged plane), so that the shape guard has work to do.                  *)
(***************************************************************************)
GuardLayouts == {<<"C", "Z", "Y", "X">>}

InitGuard ==
    /\ script = "stream"
    /\ pc = "start"
    /\ err = NoError
    /\ axes_order \in GuardLayouts
    /\ sizes \in [{axes_order[k] : k \in 1..Len(axes_order)} -> 1..MaxSide]
    /\ \E shp \in [1..Len(axes_order) -> 1..MaxSide] :
          /\ \A k \in 1..Len(axes_order) :
                axes_order[k] \notin {"C", "Y", "X"} => shp[k] = sizes[axes_order[k]]
          /\ darr \in HotArrays(shp)
    /\ num_fovs = 0
    /\ fov_axis = "unset"
    /\ total_fovs = 0
    /\ i = 0
    /\ arr = <<>>
    /\ NoBuffer /\ NoPool /\ NoTmpdir

SpecGuard == InitGuard /\ [][NextStream]_vars

\* The field of view whose plane arr holds
LastFov == IF pc = "aborted" THEN i ELSE i - 1

\* C9: whatever the (channel, row, column) shape of the reduced plane, the
\* guarded plane has exactly the declared shape (C, Y, X), each of its pixels
\* is the pixel of the reduced plane at the same index, or at the nearest
\* index the reduced plane has, and the store of the plane does not abort
\* the run.
C9_ShapeInvariance ==
    script = "stream" /\ arr # <<>> =>
        LET raw == StreamReduce(darr, axes_order, fov_axis, LastFov).sub
        IN  /\ arr.shape = geom
            /\ \A s \in Idx(geom) :
                  arr.data[s] = raw.data[<<Min2(s[1], raw.shape[1] - 1),
                                           Min2(s[2], raw.shape[2] - 1),
                                           Min2(s[3], raw.shape[3] - 1)>>]
            /\ err.kind # "ValueError"

(***************************************************************************)
(* SpecTmp: NumRuns runs of stream_max_project_nd2 at the same time, on    *)
(* one temporary directory.  files.dir maps a path to the inode it names   *)
(* (0: no such file), files.inodes holds the content of every inode ever   *)
(* created: slot -> the run that stored it last (0: zeros).  A plane of    *)
(* run r is written as r.                                                  *)
(***************************************************************************)
Runs == 1..NumRuns

OutNames == {<<"a", "max.ome.tif">>, <<"b", "max.ome.tif">>, <<"a", "round2.ome.tif">>}

\* os.path.join(tempfile.gettempdir(), os.path.basename(out_filename) + ".mmap")
memmap_path(out_filename) == <<"tmp", out_filename[Len(out_filename)], ".mmap">>

Paths == {memmap_path(o) : o \in OutNames}

Blank == [k \in 0..(RunFovs - 1) |-> 0]

InitTmp ==
    /\ script = "stream"
    /\ pc = "runs"
    /\ err = NoError
    /\ axes_order = <<>> /\ sizes = <<>> /\ num_fovs = 0 /\ darr = <<>>
    /\ fov_axis = "unset" /\ total_fovs = 0 /\ i = 0 /\ arr = <<>>
    /\ NoBuffer /\ NoPool
    /\ runs \in [Runs -> {[pc |-> "start", out_filename |-> o, ino |-> 0, i |-> 0,
                           out |-> <<>>] : o \in OutNames}]
    /\ files = [dir |-> [p \in Paths |-> 0], inodes |-> <<>>]

TmpFrame == UNCHANGED <<script, pc, err, axes_order, sizes, num_fovs, darr, fov_axis,
                        total_fovs, i, arr, buffer, pool>>

\* np.memmap(memmap_path, mode='w+', ...): the file at the path is created,
\* or truncated and filled with zeros when it exists
TmpOpen(r) ==
    /\ runs[r].pc = "start"
    /\ LET p == memmap_path(runs[r].out_filename)
       IN  IF files.dir[p] = 0
           THEN /\ files' = [dir    |-> [files.dir EXCEPT ![p] = Len(files.inodes) + 1],
                             inodes |-> Append(files.inodes, Blank)]
                /\ runs' = [runs EXCEPT ![r].pc = "loop",
                                        ![r].ino = Len(files.inodes) + 1]
           ELSE /\ files' = [files EXCEPT !.inodes[files.dir[p]] = Blank]
                /\ runs' = [runs EXCEPT ![r].pc = "loop", ![r].ino = files.dir[p]]
    /\ TmpFrame

\* mmap[i] = arr
TmpStore(r) ==
    /\ runs[r].pc = "loop" /\ runs[r].i < RunFovs
    /\ files' = [files EXCEPT !.inodes[runs[r].ino][runs[r].i] = r]
    /\ runs' = [runs EXCEPT ![r].i = @ + 1]
    /\ TmpFrame

\* mmap.flush(); imwrite(out_filename, mmap, ...)
TmpWrite(r) ==
    /\ runs[r].pc = "loop" /\ runs[r].i = RunFovs
    /\ runs' = [runs EXCEPT ![r].pc = "remove", ![r].out = files.inodes[runs[r].ino]]
    /\ UNCHANGED files
    /\ TmpFrame

\* os.remove(memmap_path); OSError (no such file) is ignored
TmpRemove(r) ==
    /\ runs[r].pc = "remove"
    /\ files' = [files EXCEPT !.dir[memmap_path(runs[r].out_filename)] = 0]
    /\ runs' = [runs EXCEPT ![r].pc = "done"]
    /\ TmpFrame

NextTmp == \E r \in Runs : TmpOpen(r) \/ TmpStore(r) \/ TmpWrite(r) \/ TmpRemove(r)

SpecTmp == InitTmp /\ [][NextTmp]_vars

\* C10: two runs that have their temporary file open at the same time never
\* have it at the same path, and what a run hands to the writer is made of
\* its own planes only.
C10_TempFileUnique ==
    /\ \A r1, r2 \in Runs :
          r1 # r2 /\ runs[r1].pc \in {"loop", "remove"} /\ runs[r2].pc \in {"loop", "remove"}
             => memmap_path(runs[r1].out_filename) # memmap_path(runs[r2].out_filename)
    /\ \A r \in Runs :
          runs[r].pc \in {"remove", "done"} => \A k \in 0..(RunFovs - 1) : runs[r].out[k] = r

=============================================================================
